---- MODULE Spec2Model ----
\* A model of the Thale lexer (src/src/lex.c), its diagnostics reporter
\* (src/src/error.c) and the two callers that drive it: the compiler's main
\* loop (src/src/thale.c) and the unit tests (src/tests/lex_tests.c).
\*
\* The source buffer is a sequence of one-character strings; the terminating
\* NUL is the position just after the last character.  Pointers into the
\* buffer are modelled as positions: position 1 is the first byte, position
\* Len(buf) + 1 is the NUL.  Pointer arithmetic is integer arithmetic, so a
\* pointer one before the buffer is position 0.
\*
\* Spec is the program with one scanner over one buffer.  TwoScanners is a
\* program that holds two buffers in the same memory, each with a Lex of its
\* own (instances), and interleaves the calls on them (history); under Spec
\* these two variables stay empty.
EXTENDS Integers, Sequences, FiniteSets, TLC

VARIABLES buf, lex, toks, trace, diags, status, caller, instances, history

vars == <<buf, lex, toks, trace, diags, status, caller, instances, history>>

-----------------------------------------------------------------------------
\* Bounds of the model.

\* Longest buffer enumerated over Alphabet.
MaxLen == 4

\* Calls a test-style caller may still make after the first Eof.
ExtraCalls == 2

-----------------------------------------------------------------------------
\* Characters.

NUL == "NUL"
NL == "\n"
TAB == "\t"
CR == "\r"
VT == "VT"
FF == "FF"
SP == " "
DQUOTE == "\""
SQUOTE == "'"
BSLASH == "\\"

UpperLetters ==
    {"A","B","C","D","E","F","G","H","I","J","K","L","M",
     "N","O","P","Q","R","S","T","U","V","W","X","Y","Z"}

LowerLetters ==
    {"a","b","c","d","e","f","g","h","i","j","k","l","m",
     "n","o","p","q","r","s","t","u","v","w","x","y","z"}

Digits == {"0","1","2","3","4","5","6","7","8","9"}

\* <ctype.h> in the "C" locale.
isalpha(c) == c \in UpperLetters \cup LowerLetters
isdigit(c) == c \in Digits
isalnum(c) == isalpha(c) \/ isdigit(c)
isspace(c) == c \in {SP, TAB, NL, VT, FF, CR}

\* The byte at position p.  Positions 1 .. Len(buf) hold the text and
\* position Len(buf) + 1 holds the terminator.
CharAt(p) == IF p \in 1..Len(buf) THEN buf[p] ELSE NUL

-----------------------------------------------------------------------------
\* Keyword table and token construction.

\* The enumerators of TokenType, in order; the first has the value 1.
TokenType ==
    <<"LParen", "RParen", "LBrace", "RBrace", "LBracket", "RBracket", "Dot",
      "Colon", "Semicolon", "Comma", "Percent", "Carot", "Plus", "Minus",
      "Star", "Slash", "NotEqual", "Assign", "Ampersand", "LogicalAnd", "Pipe",
      "LogicalOr", "Greater", "Less", "ConsOP", "Arrow", "Identifier",
      "IntLiteral", "FloatLiteral", "StringLiteral", "CharLiteral", "Char",
      "String", "False", "Float", "Int", "Let", "List", "Match", "True",
      "Type", "Unit", "With", "Effect", "Unknown", "Eof">>

\* The integer value of an enumerator (0 if it is none).
TokenValue(name) ==
    IF \E i \in 1..Len(TokenType) : TokenType[i] = name
    THEN CHOOSE i \in 1..Len(TokenType) : TokenType[i] = name
    ELSE 0

\* The keyword table without its last two entries, String and effect.
kw_WithoutStringEffect ==
    << <<(<<"C","h","a","r">>), "Char">>,
       <<(<<"F","a","l","s","e">>), "False">>,
       <<(<<"F","l","o","a","t">>), "Float">>,
       <<(<<"I","n","t">>), "Int">>,
       <<(<<"l","e","t">>), "Let">>,
       <<(<<"L","i","s","t">>), "List">>,
       <<(<<"m","a","t","c","h">>), "Match">>,
       <<(<<"T","r","u","e">>), "True">>,
       <<(<<"t","y","p","e">>), "Type">>,
       <<(<<"U","n","i","t">>), "Unit">>,
       <<(<<"w","i","t","h">>), "With">> >>

kw ==
    << <<(<<"C","h","a","r">>), "Char">>,
       <<(<<"F","a","l","s","e">>), "False">>,
       <<(<<"F","l","o","a","t">>), "Float">>,
       <<(<<"I","n","t">>), "Int">>,
       <<(<<"l","e","t">>), "Let">>,
       <<(<<"L","i","s","t">>), "List">>,
       <<(<<"m","a","t","c","h">>), "Match">>,
       <<(<<"T","r","u","e">>), "True">>,
       <<(<<"t","y","p","e">>), "Type">>,
       <<(<<"U","n","i","t">>), "Unit">>,
       <<(<<"w","i","t","h">>), "With">>,
       <<(<<"S","t","r","i","n","g">>), "String">>,
       <<(<<"e","f","f","e","c","t">>), "Effect">> >>

\* The length bytes starting at position start.
Bytes(start, length) == [i \in 1..length |-> CharAt(start + i - 1)]

RECURSIVE checkKeywordFrom(_, _, _)
checkKeywordFrom(i, start, length) ==
    IF i > Len(kw) THEN "Identifier"
    ELSE IF Len(kw[i][1]) = length /\ kw[i][1] = Bytes(start, length)
         THEN kw[i][2]
         ELSE checkKeywordFrom(i + 1, start, length)

\* checkKeyword comparing with strncmp alone, without the strlen test: a
\* lexeme that is a prefix of a keyword matches it.
RECURSIVE checkKeywordPrefixFrom(_, _, _)
checkKeywordPrefixFrom(i, start, length) ==
    IF i > Len(kw) THEN "Identifier"
    ELSE IF length <= Len(kw[i][1]) /\ SubSeq(kw[i][1], 1, length) = Bytes(start, length)
         THEN kw[i][2]
         ELSE checkKeywordPrefixFrom(i + 1, start, length)

\* checkKeyword comparing without regard to case, as strncasecmp does.
UpperSeq ==
    <<"A","B","C","D","E","F","G","H","I","J","K","L","M",
      "N","O","P","Q","R","S","T","U","V","W","X","Y","Z">>

LowerSeq ==
    <<"a","b","c","d","e","f","g","h","i","j","k","l","m",
      "n","o","p","q","r","s","t","u","v","w","x","y","z">>

tolower(c) ==
    IF c \in UpperLetters THEN LowerSeq[CHOOSE i \in 1..Len(UpperSeq) : UpperSeq[i] = c] ELSE c

RECURSIVE checkKeywordIgnoreCaseFrom(_, _, _)
checkKeywordIgnoreCaseFrom(i, start, length) ==
    IF i > Len(kw) THEN "Identifier"
    ELSE IF /\ Len(kw[i][1]) = length
            /\ \A j \in 1..length : tolower(kw[i][1][j]) = tolower(CharAt(start + j - 1))
         THEN kw[i][2]
         ELSE checkKeywordIgnoreCaseFrom(i + 1, start, length)

checkKeyword_IgnoreCase(start, length) == checkKeywordIgnoreCaseFrom(1, start, length)

checkKeyword_PrefixMatch(start, length) == checkKeywordPrefixFrom(1, start, length)

checkKeyword(start, length) == checkKeywordFrom(1, start, length)

initLex(source) == [start |-> source, current |-> source, line |-> 1, column |-> 1]

\* makeToken taking the length up to the last character instead of up to
\* the cursor.
makeToken_LengthShort(type, start, l) ==
    [typ |-> type, start |-> start, length |-> (l.current - start) - 1,
     line |-> l.line, column |-> l.column]

makeToken(type, start, l) ==
    [typ |-> type, start |-> start, length |-> l.current - start,
     line |-> l.line, column |-> l.column]

\* lex->current++; lex->column++;
Advance(l) == [l EXCEPT !.current = @ + 1, !.column = @ + 1]

-----------------------------------------------------------------------------
\* Diagnostics (error.c).  reportError prints one diagnostic and exits.

errorTypeToString(type) ==
    CASE type = "LexicalError" -> "LexicalError"
      [] type = "SyntaxError" -> "SyntaxError"
      [] type = "SemanticError" -> "SemanticError"
      [] OTHER -> "UnknownError"

\* The backward scan without its test against the buffer start: it runs on
\* to the preceding newline wherever that lies in memory.
RECURSIVE LineStart_Unbounded(_, _)
LineStart_Unbounded(src, p) ==
    IF p > 1 /\ CharAt(p - 1) # NL THEN LineStart_Unbounded(src, p - 1) ELSE p

RECURSIVE LineStart(_, _)
LineStart(src, p) ==
    IF p > src /\ CharAt(p - 1) # NL THEN LineStart(src, p - 1) ELSE p

RECURSIVE LineEnd(_)
LineEnd(p) == IF CharAt(p) # NL /\ CharAt(p) # NUL THEN LineEnd(p + 1) ELSE p

\* reportError printing the column stored in the token instead of the one
\* it computes from the source line.
reportError_TokenColumn(type, message, l, token) ==
    LET line_start == LineStart(l.start, token.start)
        line_end == LineEnd(token.start)
    IN [category |-> errorTypeToString(type),
        line |-> token.line,
        column |-> token.column,
        message |-> message,
        text |-> Bytes(line_start, line_end - line_start),
        caretPad |-> token.column - 1]

\* What reportError writes to stderr, as a record of its parts.
reportError(type, message, l, token) ==
    LET line_start == LineStart(l.start, token.start)
        line_end == LineEnd(token.start)
        column == (token.start - line_start) + 1
    IN [category |-> errorTypeToString(type),
        line |-> token.line,
        column |-> column,
        message |-> message,
        text |-> Bytes(line_start, line_end - line_start),
        caretPad |-> column - 1]

\* The outcome of one call: the state left behind and either the token
\* returned or the diagnostic printed before exit(EXIT_FAILURE).
Returned(l, tok) == [lex |-> l, exited |-> FALSE, tok |-> tok, diag |-> <<>>]
\* reportError returning to the scanner instead of exiting: the scanner
\* hands its Unknown token to the caller.
Exited_Returns(l, tok, d) == [lex |-> l, exited |-> FALSE, tok |-> tok, diag |-> <<d>>]

Exited(l, tok, d) == [lex |-> l, exited |-> TRUE, tok |-> tok, diag |-> <<d>>]

-----------------------------------------------------------------------------
\* Whitespace and comments.

RECURSIVE SkipSpaces(_)
SkipSpaces(l) ==
    IF isspace(CharAt(l.current))
    THEN SkipSpaces(IF CharAt(l.current) = NL
                    THEN [l EXCEPT !.line = @ + 1, !.column = 1, !.current = @ + 1]
                    ELSE [l EXCEPT !.column = @ + 1, !.current = @ + 1])
    ELSE l

RECURSIVE SkipToLineEnd(_)
SkipToLineEnd(l) ==
    IF CharAt(l.current) # NUL /\ CharAt(l.current) # NL
    THEN SkipToLineEnd(Advance(l))
    ELSE l

\* skipWhiteSpace without the comment branch.
skipWhiteSpace_SpacesOnly(l) == SkipSpaces(l)

\* skipWhiteSpace that leaves `--` alone when `>` follows it, so that the
\* second minus can still form an arrow.
RECURSIVE skipWhiteSpace_ArrowFirst(_)
skipWhiteSpace_ArrowFirst(l) ==
    LET l1 == SkipSpaces(l)
    IN IF /\ CharAt(l1.current) = "-"
          /\ CharAt(l1.current + 1) = "-"
          /\ CharAt(l1.current + 2) # ">"
       THEN skipWhiteSpace_ArrowFirst(
                SkipToLineEnd([l1 EXCEPT !.current = @ + 2, !.column = @ + 2]))
       ELSE l1

\* skipWhiteSpace handing back a state whose start is the position it
\* skipped to.
RECURSIVE skipWhiteSpace_StartMoved(_)
skipWhiteSpace_StartMoved(l) ==
    LET l1 == SkipSpaces(l)
    IN IF CharAt(l1.current) = "-" /\ CharAt(l1.current + 1) = "-"
       THEN skipWhiteSpace_StartMoved(
                SkipToLineEnd([l1 EXCEPT !.current = @ + 2, !.column = @ + 2]))
       ELSE [l1 EXCEPT !.start = l1.current]

RECURSIVE skipWhiteSpace(_)
skipWhiteSpace(l) ==
    LET l1 == SkipSpaces(l)
    IN IF CharAt(l1.current) = "-" /\ CharAt(l1.current + 1) = "-"
       THEN skipWhiteSpace(SkipToLineEnd([l1 EXCEPT !.current = @ + 2, !.column = @ + 2]))
       ELSE l1

-----------------------------------------------------------------------------
\* Sub-scanners.  Each is entered with the first character already consumed.

RECURSIVE IdentifierRun(_)
IdentifierRun(l) ==
    IF isalnum(CharAt(l.current)) \/ CharAt(l.current) = "_"
    THEN IdentifierRun(Advance(l))
    ELSE l

parseIdentifier(l) ==
    LET start == l.current - 1
        l1 == IdentifierRun(l)
        type == checkKeyword(start, l1.current - start)
    IN Returned(l1, makeToken(type, start, l1))

RECURSIVE DigitRun(_)
DigitRun(l) == IF isdigit(CharAt(l.current)) THEN DigitRun(Advance(l)) ELSE l

\* parseNumber without the fraction part.
parseNumber_NoFraction(l) ==
    LET start == l.current - 1
        l1 == DigitRun(l)
    IN Returned(l1, makeToken("IntLiteral", start, l1))

\* parseNumber consuming the fraction but leaving the type IntLiteral.
parseNumber_FractionKeepsInt(l) ==
    LET start == l.current - 1
        l1 == DigitRun(l)
    IN IF CharAt(l1.current) = "."
       THEN LET l2 == DigitRun(Advance(l1))
            IN Returned(l2, makeToken("IntLiteral", start, l2))
       ELSE Returned(l1, makeToken("IntLiteral", start, l1))

\* parseNumber taking the dot only when a digit follows it.
parseNumber_DotNeedsDigit(l) ==
    LET start == l.current - 1
        l1 == DigitRun(l)
    IN IF CharAt(l1.current) = "." /\ isdigit(CharAt(l1.current + 1))
       THEN LET l2 == DigitRun(Advance(l1))
            IN Returned(l2, makeToken("FloatLiteral", start, l2))
       ELSE Returned(l1, makeToken("IntLiteral", start, l1))

parseNumber(l) ==
    LET start == l.current - 1
        l1 == DigitRun(l)
    IN IF CharAt(l1.current) = "."
       THEN LET l2 == DigitRun(Advance(l1))
            IN Returned(l2, makeToken("FloatLiteral", start, l2))
       ELSE Returned(l1, makeToken("IntLiteral", start, l1))

\* The token built by hand for an invalid escape: the backslash itself.
EscapeToken(l) ==
    [typ |-> "Unknown", start |-> l.current - 1, length |-> 1,
     line |-> l.line, column |-> l.column - 1]

StringEscapes == {"n", "t", "r", BSLASH, DQUOTE}
\* The escapes of a char literal taken over from strings: \" instead of \' .
CharEscapes_AsInStrings == {"n", "t", "r", BSLASH, DQUOTE}

CharEscapes == {"n", "t", "r", BSLASH, SQUOTE}

RECURSIVE parseStringLoop(_, _)
parseStringLoop(l, start) ==
    IF CharAt(l.current) # NUL /\ CharAt(l.current) # DQUOTE
    THEN LET esc == CharAt(l.current) = BSLASH
             l1 == IF esc THEN Advance(l) ELSE l
         IN IF esc /\ CharAt(l1.current) \notin StringEscapes /\ CharAt(l1.current) # NUL
            THEN Exited(l1, EscapeToken(l1),
                        reportError("LexicalError", "Invalid escape sequence in string",
                                    l1, EscapeToken(l1)))
            ELSE IF CharAt(l1.current) = NL
            THEN Exited(l1, makeToken("Unknown", start, l1),
                        reportError("LexicalError", "Unterminated string literal",
                                    l1, makeToken("Unknown", start, l1)))
            ELSE parseStringLoop(IF CharAt(l1.current) # NUL THEN Advance(l1) ELSE l1, start)
    ELSE IF CharAt(l.current) = DQUOTE
    THEN Returned(Advance(l), makeToken("StringLiteral", start, Advance(l)))
    ELSE Exited(l, makeToken("Unknown", start, l),
                reportError("LexicalError", "Unterminated string literal",
                            l, makeToken("Unknown", start, l)))

\* parseString that gives the backslash no meaning: the literal ends at the
\* next double quote, escaped or not.
RECURSIVE parseStringLoopNoEscapes(_, _)
parseStringLoopNoEscapes(l, start) ==
    IF CharAt(l.current) # NUL /\ CharAt(l.current) # DQUOTE
    THEN IF CharAt(l.current) = NL
         THEN Exited(l, makeToken("Unknown", start, l),
                     reportError("LexicalError", "Unterminated string literal",
                                 l, makeToken("Unknown", start, l)))
         ELSE parseStringLoopNoEscapes(Advance(l), start)
    ELSE IF CharAt(l.current) = DQUOTE
    THEN Returned(Advance(l), makeToken("StringLiteral", start, Advance(l)))
    ELSE Exited(l, makeToken("Unknown", start, l),
                reportError("LexicalError", "Unterminated string literal",
                            l, makeToken("Unknown", start, l)))

parseString_NoEscapes(l) == parseStringLoopNoEscapes(l, l.current - 1)

\* parseString that skips whitespace and comments before every character
\* of the body, as getNextToken does between tokens.
RECURSIVE parseStringLoopSkipping(_, _)
parseStringLoopSkipping(l0, start) ==
    LET l == skipWhiteSpace(l0)
    IN IF CharAt(l.current) # NUL /\ CharAt(l.current) # DQUOTE
       THEN LET esc == CharAt(l.current) = BSLASH
                l1 == IF esc THEN Advance(l) ELSE l
            IN IF esc /\ CharAt(l1.current) \notin StringEscapes /\ CharAt(l1.current) # NUL
               THEN Exited(l1, EscapeToken(l1),
                           reportError("LexicalError", "Invalid escape sequence in string",
                                       l1, EscapeToken(l1)))
               ELSE IF CharAt(l1.current) = NL
               THEN Exited(l1, makeToken("Unknown", start, l1),
                           reportError("LexicalError", "Unterminated string literal",
                                       l1, makeToken("Unknown", start, l1)))
               ELSE parseStringLoopSkipping(
                        IF CharAt(l1.current) # NUL THEN Advance(l1) ELSE l1, start)
       ELSE IF CharAt(l.current) = DQUOTE
       THEN Returned(Advance(l), makeToken("StringLiteral", start, Advance(l)))
       ELSE Exited(l, makeToken("Unknown", start, l),
                   reportError("LexicalError", "Unterminated string literal",
                               l, makeToken("Unknown", start, l)))

parseString_SkipsInside(l) == parseStringLoopSkipping(l, l.current - 1)

parseString(l) == parseStringLoop(l, l.current - 1)

\* parseChar with the end-of-input test of the raw character left out.
parseChar_NoEndTest(l) ==
    LET start == l.current - 1
        esc == CharAt(l.current) = BSLASH
        l1 == IF esc THEN Advance(l) ELSE l
    IN IF esc /\ CharAt(l1.current) \notin CharEscapes /\ CharAt(l1.current) # NUL
       THEN Exited(l1, EscapeToken(l1),
                   reportError("LexicalError", "Invalid escape sequence in char literal",
                               l1, EscapeToken(l1)))
       ELSE LET l2 == Advance(l1)
            IN IF CharAt(l2.current) = SQUOTE
               THEN Returned(Advance(l2), makeToken("CharLiteral", start - 1, Advance(l2)))
               ELSE Exited(l2, makeToken("Unknown", start, l2),
                           reportError("LexicalError", "Unterminated char literal",
                                       l2, makeToken("Unknown", start, l2)))

\* parseChar that runs on to the next single quote instead of requiring it
\* right after the first character.
RECURSIVE RunToSQuote(_)
RunToSQuote(l) ==
    IF CharAt(l.current) # NUL /\ CharAt(l.current) # SQUOTE
    THEN RunToSQuote(Advance(l))
    ELSE l

parseChar_RunToQuote(l) ==
    LET start == l.current - 1
        esc == CharAt(l.current) = BSLASH
        l1 == IF esc THEN Advance(l) ELSE l
    IN IF esc /\ CharAt(l1.current) \notin CharEscapes /\ CharAt(l1.current) # NUL
       THEN Exited(l1, EscapeToken(l1),
                   reportError("LexicalError", "Invalid escape sequence in char literal",
                               l1, EscapeToken(l1)))
       ELSE LET l2 == RunToSQuote(IF CharAt(l1.current) # NUL THEN Advance(l1) ELSE l1)
            IN IF CharAt(l2.current) = SQUOTE
               THEN Returned(Advance(l2), makeToken("CharLiteral", start - 1, Advance(l2)))
               ELSE Exited(l2, makeToken("Unknown", start, l2),
                           reportError("LexicalError", "Unterminated char literal",
                                       l2, makeToken("Unknown", start, l2)))

\* The CharLiteral token is built from start - 1, the byte before the
\* opening quote (position 0, before the buffer, when the literal is the
\* first thing in it); the token's start is an address that is never read.
parseChar(l) ==
    LET start == l.current - 1
        esc == CharAt(l.current) = BSLASH
        l1 == IF esc THEN Advance(l) ELSE l
    IN IF esc /\ CharAt(l1.current) \notin CharEscapes /\ CharAt(l1.current) # NUL
       THEN Exited(l1, EscapeToken(l1),
                   reportError("LexicalError", "Invalid escape sequence in char literal",
                               l1, EscapeToken(l1)))
       ELSE LET l2 == IF CharAt(l1.current) # NUL THEN Advance(l1) ELSE l1
            IN IF CharAt(l2.current) = SQUOTE
               THEN Returned(Advance(l2), makeToken("CharLiteral", start - 1, Advance(l2)))
               ELSE Exited(l2, makeToken("Unknown", start, l2),
                           reportError("LexicalError", "Unterminated char literal",
                                       l2, makeToken("Unknown", start, l2)))

\* Compound without the lookahead: the single-character kind always.
Compound_NoLookahead(l, start, second, both, single) ==
    Returned(l, makeToken(single, start, l))

\* A symbol that may be followed by one more character to form a compound.
Compound(l, start, second, both, single) ==
    IF CharAt(l.current) = second
    THEN Returned(Advance(l), makeToken(both, start, Advance(l)))
    ELSE Returned(l, makeToken(single, start, l))

parseSymbol(l, c) ==
    LET start == l.current - 1
    IN CASE c = "(" -> Returned(l, makeToken("LParen", start, l))
         [] c = ")" -> Returned(l, makeToken("RParen", start, l))
         [] c = "{" -> Returned(l, makeToken("LBrace", start, l))
         [] c = "}" -> Returned(l, makeToken("RBrace", start, l))
         [] c = "[" -> Returned(l, makeToken("LBracket", start, l))
         [] c = "]" -> Returned(l, makeToken("RBracket", start, l))
         [] c = "." -> Returned(l, makeToken("Dot", start, l))
         [] c = ";" -> Returned(l, makeToken("Semicolon", start, l))
         [] c = "," -> Returned(l, makeToken("Comma", start, l))
         [] c = "%" -> Returned(l, makeToken("Percent", start, l))
         [] c = "^" -> Returned(l, makeToken("Carot", start, l))
         [] c = "+" -> Returned(l, makeToken("Plus", start, l))
         [] c = "*" -> Returned(l, makeToken("Star", start, l))
         [] c = "/" -> Returned(l, makeToken("Slash", start, l))
         [] c = "=" -> Returned(l, makeToken("Assign", start, l))
         [] c = ">" -> Returned(l, makeToken("Greater", start, l))
         [] c = "<" -> Compound(l, start, ">", "NotEqual", "Less")
         [] c = ":" -> Compound(l, start, ":", "ConsOP", "Colon")
         [] c = "-" -> Compound(l, start, ">", "Arrow", "Minus")
         [] c = "&" -> Compound(l, start, "&", "LogicalAnd", "Ampersand")
         [] c = "|" -> Compound(l, start, "|", "LogicalOr", "Pipe")
         [] OTHER -> Exited(l, makeToken("Unknown", start, l),
                            reportError("LexicalError", "Unknown symbol",
                                        l, makeToken("Unknown", start, l)))

\* The dispatch on the consumed character c.
Dispatch(l, c) ==
    IF isalpha(c) \/ c = "_" THEN parseIdentifier(l)
    ELSE IF isdigit(c) THEN parseNumber(l)
    ELSE IF c = DQUOTE THEN parseString(l)
    ELSE IF c = SQUOTE THEN parseChar(l)
    ELSE parseSymbol(l, c)

\* getNextToken dispatching on the current character without consuming it.
getNextToken_Peek(l) ==
    LET l1 == skipWhiteSpace(l)
    IN IF CharAt(l1.current) = NUL
       THEN Returned(l1, makeToken("Eof", l1.current, l1))
       ELSE Dispatch(l1, CharAt(l1.current))

\* getNextToken testing for end-of-input after consuming the character.
getNextToken_EofConsumed(l) ==
    LET l1 == skipWhiteSpace(l)
    IN IF CharAt(l1.current) = NUL
       THEN Returned(Advance(l1), makeToken("Eof", l1.current, Advance(l1)))
       ELSE Dispatch(Advance(l1), CharAt(l1.current))

getNextToken(l) ==
    LET l1 == skipWhiteSpace(l)
    IN IF CharAt(l1.current) = NUL
       THEN Returned(l1, makeToken("Eof", l1.current, l1))
       ELSE Dispatch(Advance(l1), CharAt(l1.current))

-----------------------------------------------------------------------------
\* Inputs.

\* Characters the bounded enumeration draws from: a letter, a digit, the
\* dot, a blank, a newline, the minus and greater signs, both quotes and
\* the backslash (which is also an unknown symbol outside a literal).
Alphabet == {"a", "1", ".", SP, NL, "-", ">", DQUOTE, SQUOTE, BSLASH}

BoundedInputs == UNION {[1..n -> Alphabet] : n \in 0..MaxLen}

\* Identifier-shaped inputs, among them the keyword "let" and its
\* neighbours.
IdentAlphabet == {"l", "e", "t", "_", "1", "T"}

IdentInputs ==
    {s \in UNION {[1..n -> IdentAlphabet] : n \in 1..MaxLen} : ~isdigit(s[1])}

\* The input of test_mixed_sequence: let x = 42 + 3.14
MixedSequence ==
    <<"l","e","t"," ","x"," ","="," ","4","2"," ","+"," ","3",".","1","4">>

\* Inputs of the unit tests.
TestInputs ==
    { MixedSequence,
      <<"v","a","r","i","a","b","l","e">>,
      <<"m","y","V","a","r">>,
      <<"t","e","s","t","1","2","3">>,
      <<"_","s","t","a","r","t">>,
      <<"U","P","P","E","R","_","S","N","A","K","E","_","C","A","S","E">>,
      <<"n","u","m","b","e","r","_","1","2","3">>,
      <<"-","-"," ","c","o","m","m","e","n","t">>,
      <<"1","2",".","3">>,
      <<"\"","h","e","l","l","o","\"">>,
      <<"'","\\","n","'">>,
      <<"1","2","3">>, <<"0">>, <<"0",".","0">>, <<"7","8",".","9","0">>,
      <<"\"","a"," ","b","\"">>,
      <<"'","\\","t","'">> }

\* The reserved spellings, each as a whole input (test_keyword, and the
\* remaining entry of the keyword table).
KeywordInputs == {kw[i][1] : i \in 1..Len(kw)}

\* The inputs of test_operator, the remaining known symbol and some
\* characters that are no symbol.
OperatorInputs ==
    { <<"(">>, <<")">>, <<"{">>, <<"}">>, <<"[">>, <<"]">>, <<".">>, <<":">>,
      <<";">>, <<",">>, <<"%">>, <<"+">>, <<"-">>, <<"*">>, <<"/">>, <<"<",">">>,
      <<"=">>, <<"&">>, <<"&","&">>, <<"|">>, <<"|","|">>, <<">">>, <<"<">>,
      <<":",":">>, <<"-",">">>, <<"^">>,
      <<"@">>, <<"#">>, <<"!">>, <<"$">>, <<"?">>, <<"~">>,
      <<"a"," ","@">>, <<"a","\n"," ","#">> }

\* Inputs with line comments, with literals that hold an escape, and with
\* malformed literals after other tokens.
LiteralInputs ==
    { <<"a"," ","-","-"," ","c","\n","b">>,
      <<"1","-","-","x","\n","\n"," ","2">>,
      <<"-","-"," ","!","@","#">>,
      <<"\"","a","\\","n","b","\"">>,
      <<"\"","\\","\"","a","\"">>,
      <<"'","a","b","'">>,
      <<"'","\\","n","x","'">>,
      <<"a","\n","\"","b","\\","q","\"">>,
      <<"'","\n","'","\"","\\","a","\"">>,
      <<"'","\n","'"," ","@">> }


\* Two identifiers that contain the keyword let, and then the keyword.
NearKeywordInputs_Sentence ==
    <<"l","e","t","x"," ","x","l","e","t"," ","l","e","t">>

\* Identifiers that begin with, end with or extend a reserved spelling, or
\* differ from one in case.
NearKeywordInputs ==
    { <<"l","e","t","t","u","c","e">>, <<"l","e","t","_">>, <<"I","n","t","1">>,
      <<"x","l","e","t">>, <<"L","e","t">>, <<"L","E","T">>, <<"i","n","t">>,
      <<"E","f","f","e","c","t">>, <<"s","t","r","i","n","g">>,
      NearKeywordInputs_Sentence }

\* Numbers with a dot that no digit follows, and with a second dot.
DottedNumberInputs ==
    { <<"1",".","2",".","3">>, <<"1",".","x">>, <<"4","2",".">>,
      <<"1",".",".","5">>, <<"7",".","\n","8">>, <<"3",".","1","4",".","x",".","0">> }

\* Minus signs next to each other, apart, and before a greater sign.
CommentMarkerInputs ==
    { <<"-","-",">">>, <<"a","-","-","b">>, <<"-"," ","-">>, <<"-",">">>,
      <<"a","-","-",">","b","\n","-",">","-"," ","-","-"," ","-",">","\n","-">>,
      <<"<","-","-","x","\n","1","-","-","-",">","\n","-","1">> }

\* String literals that hold blanks and minus signs.
SpacedStringInputs ==
    { <<"\"","a"," ","-","-"," ","b","\"">>,
      <<"\"","-","-","\"">>,
      <<"x"," ","\""," ","\t","-","-","\""," ","-","-"," ","\"","\n","y">>,
      <<"\"","a"," ","-","-"," ","b">>,
      <<"\""," "," ","\"","\""," ","-","-","-","\"">> }

Inputs ==
    BoundedInputs \cup IdentInputs \cup TestInputs \cup KeywordInputs
        \cup OperatorInputs \cup LiteralInputs \cup NearKeywordInputs
        \cup DottedNumberInputs \cup CommentMarkerInputs \cup SpacedStringInputs

-----------------------------------------------------------------------------
\* The callers.  "main" is the loop of thale.c, which stops at the first
\* Eof; "test" is a caller in the style of lex_tests.c, which may go on
\* calling getNextToken after Eof.

Callers == {"main", "test"}

EofCount == Cardinality({i \in 1..Len(toks) : toks[i].typ = "Eof"})

Init ==
    /\ buf \in Inputs
    /\ caller \in Callers
    /\ lex = initLex(1)
    /\ toks = <<>>
    /\ trace = <<>>
    /\ diags = <<>>
    /\ status = "scanning"
    /\ instances = <<>>
    /\ history = <<>>

\* What one call did: the scanner state before and after it, the position
\* of the first unskipped character (where the lexeme begins) and whether
\* the call ended in reportError.  History only; the program does not read it.
Step(r) ==
    [before |-> lex, skipped |-> skipWhiteSpace(lex).current,
     after |-> r.lex, exited |-> r.exited]

\* getNextToken returns a token to the caller; whatever the call printed
\* on the way is on stderr.
GetNextTokenReturns ==
    /\ status = "scanning"
    /\ EofCount <= ExtraCalls
    /\ LET r == getNextToken(lex)
       IN /\ ~r.exited
          /\ lex' = r.lex
          /\ toks' = Append(toks, r.tok)
          /\ trace' = Append(trace, Step(r))
          /\ diags' = diags \o r.diag
          /\ status' = IF caller = "main" /\ r.tok.typ = "Eof"
                       THEN "exit_success" ELSE "scanning"
    /\ UNCHANGED <<buf, caller, instances, history>>

\* getNextToken reaches reportError, which prints and exits.
GetNextTokenExits ==
    /\ status = "scanning"
    /\ EofCount <= ExtraCalls
    /\ LET r == getNextToken(lex)
       IN /\ r.exited
          /\ lex' = r.lex
          /\ diags' = diags \o r.diag
          /\ trace' = Append(trace, Step(r))
          /\ status' = "exit_failure"
    /\ UNCHANGED <<buf, toks, caller, instances, history>>

Next == GetNextTokenReturns \/ GetNextTokenExits

Spec == Init /\ [][Next]_vars

TypeOK ==
    /\ status \in {"scanning", "exit_success", "exit_failure"}
    /\ Len(diags) <= 1

-----------------------------------------------------------------------------
\* Positions in the source text, computed from the text alone.

BufEnd == Len(buf) + 1

\* Newlines lying before position p.
NewlinesBefore(p) == {i \in 1..Len(buf) : i < p /\ buf[i] = NL}

\* 1-based line of position p.
LineOf(p) == 1 + Cardinality(NewlinesBefore(p))

\* Position of the last newline before p, 0 if there is none.
LastNewlineBefore(p) ==
    IF NewlinesBefore(p) = {} THEN 0
    ELSE CHOOSE i \in NewlinesBefore(p) : \A j \in NewlinesBefore(p) : j <= i

\* 1-based column of position p within its line.
ColumnOf(p) == p - LastNewlineBefore(p)

Calls == 1..Len(trace)
Tokens == 1..Len(toks)

-----------------------------------------------------------------------------
\* C2: every returned token carries the 1-based line and column of its first
\* character (the first character after the skipped whitespace and comments).
C2_TokenPositionIsFirstCharacter ==
    \A i \in Tokens :
        /\ toks[i].line = LineOf(trace[i].skipped)
        /\ toks[i].column = ColumnOf(trace[i].skipped)

\* C3: every returned token's span [start, start + length) lies inside the
\* buffer and starts at the first character of the token's lexeme.
C3_SpanInsideBuffer ==
    \A i \in Tokens :
        /\ toks[i].start >= lex.start
        /\ toks[i].start + toks[i].length <= BufEnd
        /\ toks[i].start = trace[i].skipped

\* C4: while no error has been reported, the scanner's line is 1 plus the
\* number of newlines before the cursor and its column is 1 plus the number
\* of characters between the last such newline and the cursor.
C4_LineColumnCountConsumedText ==
    status # "exit_failure" =>
        /\ lex.line = LineOf(lex.current)
        /\ lex.column = ColumnOf(lex.current)

\* C5: the cursor always lies between the buffer start and the terminating
\* NUL, and no call moves it backward: each call starts where the previous
\* one stopped, skips forward to the lexeme and stops at or after it.
C5_CursorInBoundsAndForward ==
    /\ lex.start = 1
    /\ lex.start <= lex.current /\ lex.current <= BufEnd
    /\ \A i \in Calls :
        /\ lex.start <= trace[i].before.current
        /\ trace[i].before.current <= trace[i].skipped
        /\ trace[i].skipped <= trace[i].after.current
        /\ trace[i].after.current <= BufEnd
        /\ i > 1 => trace[i].before.current = trace[i - 1].after.current

\* A call that handled an escape at the very end of the input, or an
\* unterminated literal, stopped with the cursor on the NUL.
C5_Witness ==
    /\ Len(buf) >= 2
    /\ buf[Len(buf)] = BSLASH
    /\ status = "exit_failure"
    /\ lex.current = BufEnd

\* C6: after a call returns token t the cursor is t.start + t.length and
\* t.start is the position reached by skipping whitespace and comments.
C6_ConsumesExactlyTheLexeme ==
    \A i \in Tokens :
        /\ trace[i].after.current = toks[i].start + toks[i].length
        /\ toks[i].start = trace[i].skipped

\* C7: every non-Eof token consumes at least one character; the first Eof
\* or error comes within Len(buf) + 1 calls; the main loop, which stops at
\* Eof, sees exactly one Eof, as its last token.
C7_TerminatesWithinLengthPlusOneCalls ==
    /\ \A i \in Tokens :
        toks[i].typ # "Eof" => trace[i].after.current > trace[i].before.current
    /\ Len(trace) > Len(buf) =>
        \E j \in 1..(Len(buf) + 1) :
            trace[j].exited \/ (j \in Tokens /\ toks[j].typ = "Eof")
    /\ caller = "main" =>
        /\ status = "scanning" => Len(trace) <= Len(buf)
        /\ \A i \in Tokens : toks[i].typ = "Eof" => i = Len(toks)
        /\ status = "exit_success" <=> (toks # <<>> /\ toks[Len(toks)].typ = "Eof")
        /\ status = "exit_failure" <=> diags # <<>>

\* The main loop finished a buffer of several tokens.
C7_Witness ==
    /\ caller = "main"
    /\ status = "exit_success"
    /\ Len(toks) = Len(buf) + 1
    /\ Len(buf) >= 3

\* C8: a call made with the cursor at end-of-input returns Eof and leaves the
\* scanner state unchanged, and every token after an Eof is that same Eof.
C8_EofIsIdempotent ==
    /\ \A i \in Calls :
        trace[i].before.current = BufEnd =>
            /\ ~trace[i].exited
            /\ toks[i].typ = "Eof"
            /\ toks[i].length = 0
            /\ trace[i].after = trace[i].before
    /\ \A i \in Tokens : \A j \in Tokens :
        (i < j /\ toks[i].typ = "Eof") =>
            toks[j] = toks[i] /\ trace[j].after = trace[i].after

\* Two further calls were made after the first Eof of a non-empty buffer.
C8_Witness ==
    /\ Len(buf) >= 2
    /\ Len(toks) >= 4
    /\ toks[Len(toks) - 2].typ = "Eof"
    /\ toks[Len(toks)].typ = "Eof"

-----------------------------------------------------------------------------
\* Lexemes, described by their shape alone.

Blanks == {" ", "\t", "\n", "\r", "VT", "FF"}
IdentStart == UpperLetters \cup LowerLetters \cup {"_"}
IdentChars == IdentStart \cup Digits

\* Reserved spellings and their kinds.
ReservedKinds ==
    { <<(<<"C","h","a","r">>), "Char">>, <<(<<"F","a","l","s","e">>), "False">>,
      <<(<<"F","l","o","a","t">>), "Float">>, <<(<<"I","n","t">>), "Int">>,
      <<(<<"l","e","t">>), "Let">>, <<(<<"L","i","s","t">>), "List">>,
      <<(<<"m","a","t","c","h">>), "Match">>, <<(<<"T","r","u","e">>), "True">>,
      <<(<<"t","y","p","e">>), "Type">>, <<(<<"U","n","i","t">>), "Unit">>,
      <<(<<"w","i","t","h">>), "With">>, <<(<<"S","t","r","i","n","g">>), "String">>,
      <<(<<"e","f","f","e","c","t">>), "Effect">> }

ReservedSpellings == {e[1] : e \in ReservedKinds}

SymbolKinds ==
    { <<(<<"(">>), "LParen">>, <<(<<")">>), "RParen">>, <<(<<"{">>), "LBrace">>,
      <<(<<"}">>), "RBrace">>, <<(<<"[">>), "LBracket">>, <<(<<"]">>), "RBracket">>,
      <<(<<".">>), "Dot">>, <<(<<":">>), "Colon">>, <<(<<";">>), "Semicolon">>,
      <<(<<",">>), "Comma">>, <<(<<"%">>), "Percent">>, <<(<<"^">>), "Carot">>,
      <<(<<"+">>), "Plus">>, <<(<<"-">>), "Minus">>, <<(<<"*">>), "Star">>,
      <<(<<"/">>), "Slash">>, <<(<<"=">>), "Assign">>, <<(<<"&">>), "Ampersand">>,
      <<(<<"|">>), "Pipe">>, <<(<<">">>), "Greater">>, <<(<<"<">>), "Less">>,
      <<(<<"<",">">>), "NotEqual">>, <<(<<"&","&">>), "LogicalAnd">>,
      <<(<<"|","|">>), "LogicalOr">>, <<(<<":",":">>), "ConsOP">>,
      <<(<<"-",">">>), "Arrow">> }

IsIdentifierSpelling(s) ==
    /\ Len(s) >= 1
    /\ s[1] \in IdentStart
    /\ \A i \in 1..Len(s) : s[i] \in IdentChars

IsDigitRun(s) == Len(s) >= 1 /\ \A i \in 1..Len(s) : s[i] \in Digits

\* digits, a dot, and a possibly empty run of digits
IsFloatSpelling(s) ==
    \E k \in 2..Len(s) :
        /\ s[k] = "."
        /\ \A i \in 1..Len(s) : i # k => s[i] \in Digits

\* a string literal with a plain body (no quote, no backslash)
IsPlainString(s) ==
    /\ Len(s) >= 2
    /\ s[1] = "\"" /\ s[Len(s)] = "\""
    /\ \A i \in 2..(Len(s) - 1) : s[i] \notin {"\"", "\\"}

\* a char literal with one raw character
IsPlainChar(s) ==
    /\ Len(s) = 3
    /\ s[1] = "'" /\ s[3] = "'"
    /\ s[2] \notin {"'", "\\"}

\* The kind of a whitespace-free lexeme, "None" if s is not one lexeme.
LexemeKind(s) ==
    IF s \in ReservedSpellings THEN (CHOOSE e \in ReservedKinds : e[1] = s)[2]
    ELSE IF IsIdentifierSpelling(s) THEN "Identifier"
    ELSE IF IsDigitRun(s) THEN "IntLiteral"
    ELSE IF IsFloatSpelling(s) THEN "FloatLiteral"
    ELSE IF IsPlainString(s) THEN "StringLiteral"
    ELSE IF IsPlainChar(s) THEN "CharLiteral"
    ELSE IF \E e \in SymbolKinds : e[1] = s THEN (CHOOSE e \in SymbolKinds : e[1] = s)[2]
    ELSE "None"

\* The maximal runs of non-blank characters of the buffer, in order, each
\* with the position of its first character.
RECURSIVE WordEnd(_)
WordEnd(p) == IF p <= Len(buf) /\ buf[p] \notin Blanks THEN WordEnd(p + 1) ELSE p

RECURSIVE WordsFrom(_)
WordsFrom(p) ==
    IF p > Len(buf) THEN <<>>
    ELSE IF buf[p] \in Blanks THEN WordsFrom(p + 1)
    ELSE <<[pos |-> p, text |-> SubSeq(buf, p, WordEnd(p) - 1)]>> \o WordsFrom(WordEnd(p))

Words == WordsFrom(1)

-----------------------------------------------------------------------------
\* C1: when the buffer is made of lexemes separated by whitespace, the calls
\* return one token per lexeme, in source order, each consuming exactly its
\* lexeme, and Eof after the last; `let x = 42 + 3.14` yields
\* Let, Identifier, Assign, IntLiteral, Plus, FloatLiteral, Eof.
MixedKinds ==
    <<"Let", "Identifier", "Assign", "IntLiteral", "Plus", "FloatLiteral", "Eof">>

C1_OneTokenPerLexeme ==
    /\ (\A k \in 1..Len(Words) : LexemeKind(Words[k].text) # "None") =>
        /\ diags = <<>>
        /\ \A i \in Tokens :
            IF i <= Len(Words)
            THEN /\ toks[i].typ = LexemeKind(Words[i].text)
                 /\ trace[i].skipped = Words[i].pos
                 /\ trace[i].after.current = Words[i].pos + Len(Words[i].text)
            ELSE toks[i].typ = "Eof"
    /\ buf = MixedSequence =>
        /\ diags = <<>>
        /\ \A i \in Tokens : i <= Len(MixedKinds) => toks[i].typ = MixedKinds[i]

\* The main loop scanned `let x = 42 + 3.14` to the end.
C1_Witness ==
    /\ buf = MixedSequence
    /\ status = "exit_success"
    /\ Len(toks) = 7

-----------------------------------------------------------------------------
\* What follows an opening double quote, read from position p.

\* C9 as stated: the closing quote is missing when a raw newline or the end
\* of input comes first, a backslash taking the next character with it.
RECURSIVE ClosingQuoteMissing(_)
ClosingQuoteMissing(p) ==
    IF CharAt(p) = NUL \/ CharAt(p) = NL THEN TRUE
    ELSE IF CharAt(p) = "\"" THEN FALSE
    ELSE IF CharAt(p) = "\\"
         THEN (IF CharAt(p + 1) = NUL THEN TRUE ELSE ClosingQuoteMissing(p + 2))
         ELSE ClosingQuoteMissing(p + 1)

\* The same, for a body in which every escape met before that point is one
\* of \n \t \r \\ \" .
RECURSIVE UnterminatedWithValidEscapes(_)
UnterminatedWithValidEscapes(p) ==
    IF CharAt(p) = NUL \/ CharAt(p) = NL THEN TRUE
    ELSE IF CharAt(p) = "\"" THEN FALSE
    ELSE IF CharAt(p) = "\\"
         THEN (IF CharAt(p + 1) = NUL THEN TRUE
               ELSE IF CharAt(p + 1) \in {"n", "t", "r", "\\", "\""}
                    THEN UnterminatedWithValidEscapes(p + 2)
                    ELSE FALSE)
         ELSE UnterminatedWithValidEscapes(p + 1)

\* Call i ended in the diagnostic "Unterminated string literal", located at
\* the column of the opening quote, and produced no token.
ReportsUnterminatedString(i) ==
    /\ trace[i].exited
    /\ Len(toks) = i - 1
    /\ Len(diags) = 1
    /\ diags[1].category = "LexicalError"
    /\ diags[1].message = "Unterminated string literal"
    /\ diags[1].column = ColumnOf(trace[i].skipped)

\* C9 (as stated): every string literal whose closing quote is missing before
\* a raw newline or end-of-input is reported as "Unterminated string literal"
\* at the column of its opening quote.
C9_AnyUnclosedStringIsUnterminated ==
    \A i \in Calls :
        (CharAt(trace[i].skipped) = "\"" /\ ClosingQuoteMissing(trace[i].skipped + 1))
            => ReportsUnterminatedString(i)

\* C9 (amended): a string literal whose closing quote is missing before a raw
\* newline or end-of-input, and whose body has no invalid escape sequence
\* before that point, is reported as LexicalError "Unterminated string
\* literal" at the column of its opening quote, and yields no token.
C9_UnclosedStringIsUnterminated ==
    \A i \in Calls :
        (CharAt(trace[i].skipped) = "\"" /\ UnterminatedWithValidEscapes(trace[i].skipped + 1))
            => ReportsUnterminatedString(i)

\* An unterminated string on the second line, after another token.
C9_Witness ==
    /\ Len(toks) >= 1
    /\ Len(diags) = 1
    /\ diags[1].message = "Unterminated string literal"
    /\ diags[1].line >= 2
    /\ diags[1].column >= 2

-----------------------------------------------------------------------------
\* C10: a buffer that is one identifier spelling, not a reserved one, yields
\* one Identifier token spanning the whole buffer, and then Eof.
C10_SingleIdentifier ==
    (IsIdentifierSpelling(buf) /\ buf \notin ReservedSpellings) =>
        /\ diags = <<>>
        /\ \A i \in Tokens :
            IF i = 1
            THEN /\ toks[1].typ = "Identifier"
                 /\ toks[1].start = 1
                 /\ toks[1].length = Len(buf)
            ELSE toks[i].typ = "Eof"

\* An identifier that extends the keyword let was scanned to Eof.
C10_Witness ==
    /\ Len(buf) = 4
    /\ SubSeq(buf, 1, 3) = <<"l", "e", "t">>
    /\ IsIdentifierSpelling(buf)
    /\ Len(toks) = 2
    /\ toks[1].typ = "Identifier"
    /\ toks[2].typ = "Eof"

-----------------------------------------------------------------------------
\* C11: each of the 13 reserved spellings, given as the whole input, yields
\* one token of its reserved kind (never Identifier) spanning the input, and
\* then Eof; the 13 kinds are 13 different enumerators.
KeywordKindsDistinct ==
    /\ Cardinality(ReservedSpellings) = 13
    /\ {kw[i][1] : i \in 1..Len(kw)} = ReservedSpellings
    /\ \A i \in 1..Len(kw) : \A j \in 1..Len(kw) :
        i # j =>
            /\ TokenValue(kw[i][2]) # 0
            /\ TokenValue(kw[i][2]) # TokenValue(kw[j][2])
            /\ TokenValue(kw[i][2]) # TokenValue("Identifier")

C11_ReservedSpellings ==
    /\ buf \in ReservedSpellings =>
        /\ diags = <<>>
        /\ \A i \in Tokens :
            IF i = 1
            THEN /\ toks[1].typ = (CHOOSE e \in ReservedKinds : e[1] = buf)[2]
                 /\ toks[1].typ # "Identifier"
                 /\ trace[1].after.current = BufEnd
            ELSE toks[i].typ = "Eof"
    /\ KeywordKindsDistinct

\* The last entry of the table, effect, was scanned to Eof.
C11_Witness ==
    /\ buf = <<"e","f","f","e","c","t">>
    /\ Len(toks) = 2
    /\ toks[1].typ = "Effect"
    /\ toks[2].typ = "Eof"

-----------------------------------------------------------------------------
\* digits, a dot, digits: both runs non-empty
IsDigitsDotDigits(s) ==
    \E k \in 2..(Len(s) - 1) :
        /\ s[k] = "."
        /\ \A i \in 1..Len(s) : i # k => s[i] \in Digits

\* The buffer yields one token of the given kind covering all of it, then Eof.
WholeInputIs(kind) ==
    /\ diags = <<>>
    /\ \A i \in Tokens :
        IF i = 1
        THEN /\ toks[1].typ = kind
             /\ toks[1].start = 1
             /\ toks[1].length = Len(buf)
        ELSE toks[i].typ = "Eof"

\* C12: a buffer that is a non-empty run of digits yields one IntLiteral
\* covering it; a buffer of the form digits '.' digits yields one
\* FloatLiteral covering it; the next token is Eof.
C12_NumberLiterals ==
    /\ IsDigitRun(buf) => WholeInputIs("IntLiteral")
    /\ IsDigitsDotDigits(buf) => WholeInputIs("FloatLiteral")

\* A float with several digits on both sides was scanned to Eof.
C12_Witness ==
    /\ buf = <<"7","8",".","9","0">>
    /\ Len(toks) = 2
    /\ toks[1].typ = "FloatLiteral"
    /\ toks[2].typ = "Eof"

-----------------------------------------------------------------------------
\* The two-character operators: first character, second character, the
\* compound kind and the kind of the first character alone.
CompoundOperators ==
    { <<"<", ">", "NotEqual", "Less">>,
      <<"&", "&", "LogicalAnd", "Ampersand">>,
      <<"|", "|", "LogicalOr", "Pipe">>,
      <<":", ":", "ConsOP", "Colon">>,
      <<"-", ">", "Arrow", "Minus">> }

\* C13: each two-character operator, as the whole input, yields one token of
\* the compound kind with length 2; its first character alone at
\* end-of-input yields the single-character kind with length 1.
C13_CompoundOperators ==
    \A op \in CompoundOperators :
        /\ buf = <<op[1], op[2]>> =>
            /\ diags = <<>>
            /\ \A i \in Tokens :
                IF i = 1
                THEN toks[1].typ = op[3] /\ toks[1].length = 2
                ELSE toks[i].typ = "Eof"
        /\ buf = <<op[1]>> =>
            /\ diags = <<>>
            /\ \A i \in Tokens :
                IF i = 1
                THEN toks[1].typ = op[4] /\ toks[1].length = 1
                ELSE toks[i].typ = "Eof"

\* The cons operator was scanned as one token.
C13_Witness ==
    /\ buf = <<":", ":">>
    /\ Len(toks) >= 1
    /\ toks[1].typ = "ConsOP"
    /\ toks[1].length = 2

-----------------------------------------------------------------------------
\* The words of the buffer that lie outside line comments.  A comment runs
\* from a `--` that is not inside a quoted word to the end of its line.

RECURSIVE CommentEnd(_)
CommentEnd(p) ==
    IF p <= Len(buf) /\ buf[p] # "\n" THEN CommentEnd(p + 1) ELSE p

\* The end of the word starting at p: the next blank, the end of the
\* buffer or, in a word that does not start with a quote, the next `--`.
RECURSIVE CodeWordEnd(_, _)
CodeWordEnd(p, quoted) ==
    IF p > Len(buf) \/ buf[p] \in Blanks THEN p
    ELSE IF ~quoted /\ buf[p] = "-" /\ p < Len(buf) /\ buf[p + 1] = "-" THEN p
    ELSE CodeWordEnd(p + 1, quoted)

RECURSIVE CodeWordsFrom(_)
CodeWordsFrom(p) ==
    IF p > Len(buf) THEN <<>>
    ELSE IF buf[p] \in Blanks THEN CodeWordsFrom(p + 1)
    ELSE IF buf[p] = "-" /\ p < Len(buf) /\ buf[p + 1] = "-"
         THEN CodeWordsFrom(CommentEnd(p))
         ELSE LET q == CodeWordEnd(p, buf[p] \in {"\"", "'"})
              IN <<[pos |-> p, text |-> SubSeq(buf, p, q - 1)]>> \o CodeWordsFrom(q)

CodeWords == CodeWordsFrom(1)

\* C14: a line comment contributes no token.  When the buffer holds a
\* comment and its words outside comments are lexemes, the tokens are those
\* lexemes in order, each on its own source line, and then Eof; a buffer
\* that is only a comment yields only Eof.
C14_CommentsYieldNoToken ==
    (CodeWords # Words /\ \A k \in 1..Len(CodeWords) : LexemeKind(CodeWords[k].text) # "None") =>
        /\ diags = <<>>
        /\ \A i \in Tokens :
            IF i <= Len(CodeWords)
            THEN /\ toks[i].typ = LexemeKind(CodeWords[i].text)
                 /\ trace[i].skipped = CodeWords[i].pos
                 /\ trace[i].after.current = CodeWords[i].pos + Len(CodeWords[i].text)
                 /\ toks[i].line = LineOf(CodeWords[i].pos)
            ELSE toks[i].typ = "Eof"

\* A comment between two tokens: the second token came out on line 2.
C14_Witness ==
    /\ buf = <<"a"," ","-","-"," ","c","\n","b">>
    /\ Len(toks) = 3
    /\ toks[1].typ = "Identifier"
    /\ toks[2].typ = "Identifier"
    /\ toks[2].line = 2
    /\ toks[3].typ = "Eof"

-----------------------------------------------------------------------------
\* Positions i .. last of the buffer are a string body: characters other
\* than quote, backslash and newline, and the escapes \n \t \r \\ \" .
RECURSIVE IsStringBody(_, _)
IsStringBody(i, last) ==
    IF i > last THEN TRUE
    ELSE IF buf[i] = "\\"
         THEN /\ i + 1 <= last
              /\ buf[i + 1] \in {"n", "t", "r", "\\", "\""}
              /\ IsStringBody(i + 2, last)
         ELSE /\ buf[i] \notin {"\"", "\n"}
              /\ IsStringBody(i + 1, last)

\* The whole buffer is one string literal on one line.
IsStringSpelling ==
    /\ Len(buf) >= 2
    /\ buf[1] = "\"" /\ buf[Len(buf)] = "\""
    /\ IsStringBody(2, Len(buf) - 1)

\* C15: a buffer of the form "body", body made of characters other than
\* quote, backslash and newline and of recognized escapes, yields one
\* StringLiteral from the opening through the closing quote (length = body
\* length + 2, an escaped quote does not end it), and then Eof.
C15_StringLiteral ==
    IsStringSpelling =>
        /\ WholeInputIs("StringLiteral")
        /\ \A i \in Tokens : i = 1 => toks[1].length >= 2

\* A literal holding an escaped quote was scanned to Eof.
C15_Witness ==
    /\ buf = <<"\"", "\\", "\"", "a", "\"">>
    /\ Len(toks) = 2
    /\ toks[1].typ = "StringLiteral"
    /\ toks[1].length = 5
    /\ toks[2].typ = "Eof"

-----------------------------------------------------------------------------
\* The whole buffer is a char literal: one raw character (any character but
\* the backslash, which introduces an escape) or one escape \n \t \r \\ \' .
IsCharSpelling ==
    \/ /\ Len(buf) = 3
       /\ buf[1] = "'" /\ buf[3] = "'"
       /\ buf[2] # "\\"
    \/ /\ Len(buf) = 4
       /\ buf[1] = "'" /\ buf[4] = "'"
       /\ buf[2] = "\\"
       /\ buf[3] \in {"n", "t", "r", "\\", "'"}

\* C16: a buffer 'c' with one raw character c, or '\e' with e one of
\* n t r \ ', yields one CharLiteral token, and then Eof.
C16_CharLiteral ==
    IsCharSpelling =>
        /\ diags = <<>>
        /\ \A i \in Tokens :
            IF i = 1
            THEN /\ toks[1].typ = "CharLiteral"
                 /\ trace[1].after.current = BufEnd
            ELSE toks[i].typ = "Eof"

\* The escaped single quote was scanned to Eof.
C16_Witness ==
    /\ buf = <<"'", "\\", "'", "'">>
    /\ Len(toks) = 2
    /\ toks[1].typ = "CharLiteral"
    /\ toks[2].typ = "Eof"

-----------------------------------------------------------------------------
\* The position after the first logical character of a char literal whose
\* opening quote is at p (0 if there is no such character): one raw
\* character, or a backslash and one of n t r \ ' .
AfterFirstCharacter(p) ==
    IF CharAt(p + 1) = "\\"
    THEN (IF CharAt(p + 2) \in {"n", "t", "r", "\\", "'"} THEN p + 3 ELSE 0)
    ELSE (IF CharAt(p + 1) \notin {NUL, "'"} THEN p + 2 ELSE 0)

\* A char literal opens at p and holds more than one logical character
\* between its quotes.
IsLongCharLiteral(p) ==
    /\ CharAt(p) = "'"
    /\ AfterFirstCharacter(p) # 0
    /\ CharAt(AfterFirstCharacter(p)) \notin {NUL, "'"}
    /\ \E q \in 1..Len(buf) : q > AfterFirstCharacter(p) /\ buf[q] = "'"

\* C17: a char literal with more than one logical character between its
\* quotes is rejected: the call ends in a LexicalError diagnostic and
\* returns no token.
C17_LongCharLiteralRejected ==
    \A i \in Calls :
        IsLongCharLiteral(trace[i].skipped) =>
            /\ trace[i].exited
            /\ Len(toks) = i - 1
            /\ Len(diags) = 1
            /\ diags[1].category = "LexicalError"
            /\ \A k \in Tokens : toks[k].typ = "CharLiteral" => trace[k].skipped # trace[i].skipped

\* The literal '\nx' was rejected.
C17_Witness ==
    /\ buf = <<"'", "\\", "n", "x", "'">>
    /\ status = "exit_failure"
    /\ toks = <<>>
    /\ Len(diags) = 1

-----------------------------------------------------------------------------
\* The position of the backslash of the first invalid escape in the string
\* body read from p, 0 if the body has none before it ends.
RECURSIVE InvalidEscapeAt(_)
InvalidEscapeAt(p) ==
    IF CharAt(p) \in {NUL, "\n", "\""} THEN 0
    ELSE IF CharAt(p) = "\\"
         THEN (IF CharAt(p + 1) = NUL THEN 0
               ELSE IF CharAt(p + 1) \in {"n", "t", "r", "\\", "\""}
                    THEN InvalidEscapeAt(p + 2)
                    ELSE p)
         ELSE InvalidEscapeAt(p + 1)

\* C18: in a string literal, a backslash followed by a character outside
\* n t r \ " (and not by end-of-input) ends the call in LexicalError
\* "Invalid escape sequence in string", reported at the line and column of
\* the backslash.
C18_InvalidEscapeAtBackslash ==
    \A i \in Calls :
        (CharAt(trace[i].skipped) = "\"" /\ InvalidEscapeAt(trace[i].skipped + 1) # 0) =>
            /\ trace[i].exited
            /\ Len(diags) = 1
            /\ diags[1].category = "LexicalError"
            /\ diags[1].message = "Invalid escape sequence in string"
            /\ diags[1].line = LineOf(InvalidEscapeAt(trace[i].skipped + 1))
            /\ diags[1].column = ColumnOf(InvalidEscapeAt(trace[i].skipped + 1))

-----------------------------------------------------------------------------
KnownSymbolCharacters ==
    {"(", ")", "{", "}", "[", "]", ".", ";", ",", "%", "^", "+", "*", "/",
     "=", ">", "<", ":", "-", "&", "|"}

LexemeStartCharacters ==
    IdentStart \cup Digits \cup {"\"", "'"} \cup KnownSymbolCharacters

\* C19: a lexeme whose first character is no letter, underscore, digit,
\* quote or known symbol character ends the call in LexicalError "Unknown
\* symbol", reported at the line and column of that character; every known
\* single-character symbol, alone in the buffer, yields one token of its own
\* kind with length 1.
C19_UnknownSymbol ==
    /\ \A i \in Calls :
        (CharAt(trace[i].skipped) \notin LexemeStartCharacters \cup {NUL}) =>
            /\ trace[i].exited
            /\ Len(toks) = i - 1
            /\ Len(diags) = 1
            /\ diags[1].category = "LexicalError"
            /\ diags[1].message = "Unknown symbol"
            /\ diags[1].line = LineOf(trace[i].skipped)
            /\ diags[1].column = ColumnOf(trace[i].skipped)
    /\ \A e \in SymbolKinds :
        (Len(e[1]) = 1 /\ buf = e[1]) =>
            /\ diags = <<>>
            /\ \A i \in Tokens :
                IF i = 1
                THEN toks[1].typ = e[2] /\ toks[1].length = 1
                ELSE toks[i].typ = "Eof"

-----------------------------------------------------------------------------
-----------------------------------------------------------------------------
\* The source line containing position p, computed from the text alone: it
\* runs from just after the preceding newline (or the buffer start) up to
\* the next newline or the end of the text.
NextLineBreak(p) ==
    CHOOSE q \in p..BufEnd :
        /\ CharAt(q) \in {NL, NUL}
        /\ \A j \in p..(q - 1) : CharAt(j) \notin {NL, NUL}

SourceLineOf(p) == SubSeq(buf, LastNewlineBefore(p) + 1, NextLineBreak(p) - 1)

\* The token handed to reportError by call i.
OffendingToken(i) == getNextToken(trace[i].before).tok

\* C21: the diagnostic of a call that ends in reportError with token t shows
\* the column (t.start - start of the source line holding t.start) + 1, the
\* full text of that source line, a caret after column - 1 spaces, and as
\* line number the 1-based index of that source line in the buffer, whatever
\* tokens were scanned before.
C21_DiagnosticRendering ==
    \A i \in Calls :
        trace[i].exited =>
            /\ Len(diags) = 1
            /\ diags[1].column = OffendingToken(i).start - LastNewlineBefore(OffendingToken(i).start)
            /\ diags[1].text = SourceLineOf(OffendingToken(i).start)
            /\ diags[1].caretPad = diags[1].column - 1
            /\ diags[1].line = LineOf(OffendingToken(i).start)

-----------------------------------------------------------------------------
\* A program with two scanner instances.  Memory holds the first buffer, its
\* NUL, and then the second buffer; each instance has a Lex of its own,
\* initialised on its buffer, and the program calls getNextToken on either
\* instance in any order until that instance has returned Eof.  A call that
\* reaches reportError ends the whole program.

\* Longest buffer of the two-scanner program.
PairLen == 2

PairAlphabet == {"a", SP, NL, SQUOTE, "-"}

PairInputs == UNION {[1..n -> PairAlphabet] : n \in 0..PairLen}

Instances == {1, 2}

\* Position of the NUL that ends the first buffer.
FirstNul ==
    CHOOSE p \in 1..Len(buf) : buf[p] = NUL /\ \A j \in 1..(p - 1) : buf[j] # NUL

\* Address of the buffer of instance k and of the NUL that ends it.
BufferStart(k) == IF k = 1 THEN 1 ELSE FirstNul + 1
BufferEnd(k) == IF k = 1 THEN FirstNul ELSE Len(buf) + 1

\* The scanner state kept in one object shared by every instance.
WriteBack_Static(ls, k, l) == [j \in DOMAIN ls |-> l]

\* The writes of a call go through its Lex pointer: to the Lex of instance
\* k and to nothing else.
WriteBack(ls, k, l) == [ls EXCEPT ![k] = l]

\* Instance k has been handed its Eof.
HasEof(k) ==
    \E i \in 1..Len(history) :
        history[i].inst = k /\ ~history[i].exited /\ history[i].tok.typ = "Eof"

TwoInit ==
    /\ \E a \in PairInputs : \E b \in PairInputs : buf = a \o <<NUL>> \o b
    /\ instances = [k \in Instances |-> initLex(BufferStart(k))]
    /\ history = <<>>
    /\ diags = <<>>
    /\ status = "scanning"
    /\ lex = initLex(1)
    /\ toks = <<>>
    /\ trace = <<>>
    /\ caller = "test"

\* A call on instance k returns a token.
InstanceReturns(k) ==
    /\ status = "scanning"
    /\ ~HasEof(k)
    /\ LET r == getNextToken(instances[k])
       IN /\ ~r.exited
          /\ instances' = WriteBack(instances, k, r.lex)
          /\ history' = Append(history, [inst |-> k, exited |-> FALSE,
                                         tok |-> r.tok, diag |-> r.diag])
          /\ diags' = diags \o r.diag
    /\ UNCHANGED <<buf, lex, toks, trace, status, caller>>

\* A call on instance k reaches reportError, which prints and exits.
InstanceExits(k) ==
    /\ status = "scanning"
    /\ ~HasEof(k)
    /\ LET r == getNextToken(instances[k])
       IN /\ r.exited
          /\ instances' = WriteBack(instances, k, r.lex)
          /\ history' = Append(history, [inst |-> k, exited |-> TRUE,
                                         tok |-> r.tok, diag |-> r.diag])
          /\ diags' = diags \o r.diag
          /\ status' = "exit_failure"
    /\ UNCHANGED <<buf, lex, toks, trace, caller>>

TwoNext == \E k \in Instances : InstanceReturns(k) \/ InstanceExits(k)

TwoScanners == TwoInit /\ [][TwoNext]_vars

\* The text of the buffer of instance k, and what is left of it from the
\* cursor on.
Contents(k) == SubSeq(buf, BufferStart(k), BufferEnd(k) - 1)
Remaining(k) == SubSeq(buf, instances[k].current, BufferEnd(k) - 1)

\* The calls made on instance k so far, in order.
CallsOf(k) == SelectSeq(history, LAMBDA h : h.inst = k)

\* The outcome r of a call on instance k as its caller sees it: the token
\* with its span as an offset into the buffer, or the diagnostic.
Outcome(k, r) ==
    IF r.exited
    THEN [exited |-> TRUE, diag |-> r.diag]
    ELSE [exited |-> FALSE, typ |-> r.tok.typ, offset |-> r.tok.start - BufferStart(k),
          length |-> r.tok.length, line |-> r.tok.line, column |-> r.tok.column]

\* The token of outcome r as seen from the cursor c the call started at.
FromCursor(r, c) ==
    [exited |-> r.exited, typ |-> r.tok.typ, offset |-> r.tok.start - c,
     length |-> r.tok.length, line |-> r.tok.line, column |-> r.tok.column]

\* C22: scanning is deterministic.  Two scanners over buffers with the same
\* contents, stepped together, have the same outcome at every step: the
\* same kind, span offset, length, line and column, or the same diagnostic.
\* And whenever two scanners have the same text from the cursor onward and
\* the same line and column counters, their next calls both return or both
\* fail, and returned tokens agree in kind, length, line, column and
\* position relative to the cursor.
C22_Deterministic ==
    /\ Contents(1) = Contents(2) =>
        /\ \A n \in 1..Len(CallsOf(1)) :
            n <= Len(CallsOf(2)) =>
                Outcome(1, CallsOf(1)[n]) = Outcome(2, CallsOf(2)[n])
        /\ Len(CallsOf(1)) = Len(CallsOf(2)) =>
            /\ instances[1].current - BufferStart(1) = instances[2].current - BufferStart(2)
            /\ instances[1].line = instances[2].line
            /\ instances[1].column = instances[2].column
            /\ Outcome(1, getNextToken(instances[1])) = Outcome(2, getNextToken(instances[2]))
    /\ ( /\ Remaining(1) = Remaining(2)
         /\ instances[1].line = instances[2].line
         /\ instances[1].column = instances[2].column ) =>
        /\ getNextToken(instances[1]).exited = getNextToken(instances[2]).exited
        /\ ~getNextToken(instances[1]).exited =>
            FromCursor(getNextToken(instances[1]), instances[1].current)
                = FromCursor(getNextToken(instances[2]), instances[2].current)

\* Two scanners over the same two-character text have each returned two
\* tokens, the second of them at an address of its own.
C22_Witness ==
    /\ Contents(1) = Contents(2)
    /\ Len(Contents(1)) >= 2
    /\ Len(CallsOf(1)) >= 2
    /\ Len(CallsOf(2)) >= 2
    /\ CallsOf(1)[2].tok.typ # "Eof"
    /\ CallsOf(2)[2].tok.start > BufferEnd(1)

-----------------------------------------------------------------------------
\* What n calls yield when made one after another on a scanner in state l,
\* nothing else running: the outcomes in order (the run ends at a call that
\* exits) and the scanner state left behind.
RECURSIVE Alone(_, _)
Alone(l, n) ==
    IF n = 0 THEN <<>>
    ELSE LET r == getNextToken(l)
         IN <<r>> \o (IF r.exited THEN <<>> ELSE Alone(r.lex, n - 1))

RECURSIVE AloneState(_, _)
AloneState(l, n) ==
    IF n = 0 THEN l
    ELSE LET r == getNextToken(l)
         IN IF r.exited THEN r.lex ELSE AloneState(r.lex, n - 1)

\* C23: two instances, each with its own Lex over its own buffer, called in
\* any interleaving.  The outcomes instance k has had so far are exactly
\* those of the same number of calls made on it alone, and its cursor, line
\* and column are those such a run leaves: no call on the other instance
\* has changed them.
C23_InstancesIndependent ==
    \A k \in Instances :
        /\ Len(Alone(initLex(BufferStart(k)), Len(CallsOf(k)))) = Len(CallsOf(k))
        /\ \A n \in 1..Len(CallsOf(k)) :
            /\ CallsOf(k)[n].exited = Alone(initLex(BufferStart(k)), n)[n].exited
            /\ CallsOf(k)[n].tok = Alone(initLex(BufferStart(k)), n)[n].tok
            /\ CallsOf(k)[n].diag = Alone(initLex(BufferStart(k)), n)[n].diag
        /\ instances[k] = AloneState(initLex(BufferStart(k)), Len(CallsOf(k)))

\* Calls on two different buffers alternated: first, second, first, second.
C23_Witness ==
    /\ Contents(1) # Contents(2)
    /\ Len(history) >= 4
    /\ history[1].inst = 1
    /\ history[2].inst = 2
    /\ history[3].inst = 1
    /\ history[4].inst = 2
    /\ history[3].tok.typ # "Eof"
    /\ history[4].tok.typ # "Eof"

-----------------------------------------------------------------------------
\* C24: a returned token has length 0 exactly when its kind is Eof; a token
\* of any other kind has length at least 1.
C24_ZeroLengthOnlyForEof ==
    \A i \in Tokens :
        /\ toks[i].length = 0 <=> toks[i].typ = "Eof"
        /\ toks[i].typ # "Eof" => toks[i].length >= 1

\* One-character tokens, and then Eof, were returned.
C24_Witness ==
    /\ Len(toks) >= 3
    /\ toks[1].typ # "Eof"
    /\ trace[1].after.current - trace[1].skipped = 1
    /\ trace[2].after.current - trace[2].skipped = 1
    /\ toks[3].typ = "Eof"

-----------------------------------------------------------------------------
\* The end of the maximal run of letters, digits and underscores that
\* starts at p.
RECURSIVE IdentEnd(_)
IdentEnd(p) == IF CharAt(p) \in IdentChars THEN IdentEnd(p + 1) ELSE p

IdentText(p) == SubSeq(buf, p, IdentEnd(p) - 1)

\* C25: a lexeme that starts with a letter or underscore is the maximal run
\* of letters, digits and underscores, and its kind is a reserved one only
\* if the whole run is, case for case, a reserved spelling; otherwise it is
\* Identifier.  lettuce, let_, Int1, xlet, Let, LET and int are Identifier.
C25_KeywordExactMatch ==
    /\ \A i \in Calls :
        CharAt(trace[i].skipped) \in IdentStart =>
            /\ ~trace[i].exited
            /\ i \in Tokens
            /\ toks[i].start = trace[i].skipped
            /\ toks[i].length = Len(IdentText(trace[i].skipped))
            /\ trace[i].after.current = IdentEnd(trace[i].skipped)
            /\ toks[i].typ =
                IF IdentText(trace[i].skipped) \in ReservedSpellings
                THEN (CHOOSE e \in ReservedKinds : e[1] = IdentText(trace[i].skipped))[2]
                ELSE "Identifier"
    /\ buf \in NearKeywordInputs \ {NearKeywordInputs_Sentence} => WholeInputIs("Identifier")
    /\ buf = NearKeywordInputs_Sentence =>
        \A i \in Tokens :
            toks[i].typ = (IF i <= 3 THEN <<"Identifier", "Identifier", "Let">>[i] ELSE "Eof")

\* letx xlet let was scanned to Eof: only the last word is the keyword.
C25_Witness ==
    /\ buf = NearKeywordInputs_Sentence
    /\ Len(toks) = 4
    /\ toks[1].typ = "Identifier"
    /\ toks[2].typ = "Identifier"
    /\ toks[3].typ = "Let"
    /\ toks[4].typ = "Eof"

-----------------------------------------------------------------------------
\* The end of the maximal run of digits that starts at p.
RECURSIVE DigitsEnd(_)
DigitsEnd(p) == IF CharAt(p) \in Digits THEN DigitsEnd(p + 1) ELSE p

\* C26: a number lexeme is a digit run and, if a dot follows it, that one
\* dot and the digits after it, none included; with the dot it is a
\* FloatLiteral whose span includes the dot, even when no digit follows.
\* `1.2.3` yields FloatLiteral `1.2`, Dot, IntLiteral `3`, Eof.
C26_TrailingDotIsFloat ==
    /\ \A i \in Calls :
        CharAt(trace[i].skipped) \in Digits =>
            /\ ~trace[i].exited
            /\ i \in Tokens
            /\ toks[i].start = trace[i].skipped
            /\ IF CharAt(DigitsEnd(trace[i].skipped)) = "."
               THEN /\ toks[i].typ = "FloatLiteral"
                    /\ toks[i].length =
                        DigitsEnd(DigitsEnd(trace[i].skipped) + 1) - trace[i].skipped
               ELSE /\ toks[i].typ = "IntLiteral"
                    /\ toks[i].length = DigitsEnd(trace[i].skipped) - trace[i].skipped
    /\ buf \in {<<"1", ".">>, <<"4", "2", ".">>} => WholeInputIs("FloatLiteral")
    /\ buf = <<"1", ".", "x">> =>
        \A i \in Tokens :
            /\ toks[i].typ = (IF i <= 2 THEN <<"FloatLiteral", "Identifier">>[i] ELSE "Eof")
            /\ i = 1 => toks[i].length = 2
    /\ buf = <<"1", ".", "2", ".", "3">> =>
        \A i \in Tokens :
            /\ toks[i].typ =
                (IF i <= 3 THEN <<"FloatLiteral", "Dot", "IntLiteral">>[i] ELSE "Eof")
            /\ i = 1 => (toks[i].start = 1 /\ toks[i].length = 3)
            /\ i = 2 => (toks[i].start = 4 /\ toks[i].length = 1)
            /\ i = 3 => (toks[i].start = 5 /\ toks[i].length = 1)

\* 1.2.3 was scanned to Eof.
C26_Witness ==
    /\ buf = <<"1", ".", "2", ".", "3">>
    /\ Len(toks) = 4
    /\ toks[1].typ = "FloatLiteral"
    /\ toks[2].typ = "Dot"
    /\ toks[3].typ = "IntLiteral"
    /\ toks[4].typ = "Eof"

-----------------------------------------------------------------------------
\* C27: initLex leaves cursor = buffer_start = the buffer it was given (the
\* first byte of the text), line = 1 and column = 1; no call of
\* getNextToken changes buffer_start, whether it skips whitespace and
\* comments, returns a token or ends in an error.
C27_BufferStartIsFixed ==
    /\ initLex(1) = [start |-> 1, current |-> 1, line |-> 1, column |-> 1]
    /\ trace = <<>> => lex = [start |-> 1, current |-> 1, line |-> 1, column |-> 1]
    /\ trace # <<>> =>
        trace[1].before = [start |-> 1, current |-> 1, line |-> 1, column |-> 1]
    /\ lex.start = 1
    /\ \A i \in Calls :
        /\ trace[i].before.start = 1
        /\ trace[i].after.start = trace[i].before.start

\* A call skipped blanks and a comment before its token, across a line
\* break, and the scan went on to Eof.
C27_Witness ==
    /\ \E i \in Calls :
        /\ trace[i].skipped >= trace[i].before.current + 4
        /\ trace[i].after.line > trace[i].before.line
        /\ trace[i].after.current > trace[i].skipped
        /\ ~trace[i].exited
    /\ toks # <<>>
    /\ toks[Len(toks)].typ = "Eof"
    /\ lex.current > lex.start

-----------------------------------------------------------------------------
\* The first position at or after p that is neither a blank nor inside a
\* comment, a comment running from `--` to the end of its line.
RECURSIVE NextCode(_)
NextCode(p) ==
    IF p > Len(buf) THEN p
    ELSE IF buf[p] \in Blanks THEN NextCode(p + 1)
    ELSE IF buf[p] = "-" /\ CharAt(p + 1) = "-" THEN NextCode(CommentEnd(p))
    ELSE p

\* C28: at a token boundary `--` starts a comment and wins over Minus and
\* Arrow.  Every call's lexeme begins at the first position after the
\* blanks and comments that follow the previous lexeme, which is never a
\* `--`; a Minus or Arrow token begins with a `-` that no `-` follows and
\* is Arrow exactly when `>` follows.  `-->` yields only Eof, `a--b` yields
\* Identifier and Eof, `- -` yields Minus, Minus, Eof and `->` yields
\* Arrow, Eof.
C28_CommentMarkerPriority ==
    /\ \A i \in Calls :
        /\ trace[i].skipped = NextCode(trace[i].before.current)
        /\ ~(CharAt(trace[i].skipped) = "-" /\ CharAt(trace[i].skipped + 1) = "-")
        /\ CharAt(trace[i].skipped) = "-" =>
            /\ ~trace[i].exited
            /\ i \in Tokens
            /\ toks[i].start = trace[i].skipped
            /\ toks[i].typ = IF CharAt(trace[i].skipped + 1) = ">" THEN "Arrow" ELSE "Minus"
    /\ \A i \in Tokens :
        toks[i].typ \in {"Minus", "Arrow"} => CharAt(trace[i].skipped) = "-"
    /\ buf = <<"-", "-", ">">> => (diags = <<>> /\ \A i \in Tokens : toks[i].typ = "Eof")
    /\ buf = <<"a", "-", "-", "b">> =>
        /\ diags = <<>>
        /\ \A i \in Tokens : toks[i].typ = (IF i = 1 THEN "Identifier" ELSE "Eof")
    /\ buf = <<"-", " ", "-">> =>
        /\ diags = <<>>
        /\ \A i \in Tokens : toks[i].typ = (IF i <= 2 THEN "Minus" ELSE "Eof")
    /\ buf = <<"-", ">">> =>
        /\ diags = <<>>
        /\ \A i \in Tokens : toks[i].typ = (IF i = 1 THEN "Arrow" ELSE "Eof")

\* In a-->b / ->- -- -> / - the tokens are a, Arrow, Minus, Minus, Eof.
C28_Witness ==
    /\ Len(buf) = 17
    /\ buf[2] = "-"
    /\ Len(toks) = 5
    /\ toks[1].typ = "Identifier"
    /\ toks[2].typ = "Arrow"
    /\ toks[3].typ = "Minus"
    /\ toks[4].typ = "Minus"
    /\ toks[5].typ = "Eof"

-----------------------------------------------------------------------------
\* The position of the quote that closes the string body read from p, 0 if
\* a raw newline, the end of the text or an invalid escape comes first.
RECURSIVE ClosingQuote(_)
ClosingQuote(p) ==
    IF CharAt(p) \in {NUL, "\n"} THEN 0
    ELSE IF CharAt(p) = "\"" THEN p
    ELSE IF CharAt(p) = "\\"
         THEN (IF CharAt(p + 1) \in {"n", "t", "r", "\\", "\""}
               THEN ClosingQuote(p + 2)
               ELSE 0)
         ELSE ClosingQuote(p + 1)

\* A blank or a `--` lies between positions p and q.
HoldsBlankOrMarker(p, q) ==
    \E j \in p..q : buf[j] \in Blanks \/ (buf[j] = "-" /\ j < q /\ buf[j + 1] = "-")

\* C29: blanks and `--` inside a string literal belong to the literal.  A
\* string that opens at a token boundary and has a closing quote on its
\* line yields one StringLiteral from the opening through the closing
\* quote, whatever blanks and minus signs lie between; `"a -- b"` yields
\* one StringLiteral spanning the whole input, and then Eof.
C29_StringKeepsBlanksAndMarkers ==
    /\ \A i \in Calls :
        (CharAt(trace[i].skipped) = "\"" /\ ClosingQuote(trace[i].skipped + 1) # 0) =>
            /\ ~trace[i].exited
            /\ i \in Tokens
            /\ toks[i].typ = "StringLiteral"
            /\ toks[i].start = trace[i].skipped
            /\ toks[i].length = ClosingQuote(trace[i].skipped + 1) - trace[i].skipped + 1
            /\ trace[i].after.current = ClosingQuote(trace[i].skipped + 1) + 1
    /\ buf = <<"\"", "a", " ", "-", "-", " ", "b", "\"">> => WholeInputIs("StringLiteral")

\* A string literal holding a blank and a `--` was returned, after another
\* token; the comment behind it was skipped and an identifier came next.
C29_Witness ==
    \E i \in Tokens :
        /\ i >= 2
        /\ toks[i].typ = "StringLiteral"
        /\ HoldsBlankOrMarker(toks[i].start + 1, toks[i].start + toks[i].length - 2)
        /\ \E j \in (toks[i].start + 1)..(toks[i].start + toks[i].length - 3) :
            buf[j] = "-" /\ buf[j + 1] = "-"
        /\ Len(toks) > i
        /\ toks[i + 1].typ = "Identifier"
        /\ trace[i + 1].skipped > trace[i].after.current + 4

-----------------------------------------------------------------------------
\* C30: the spans of successively returned tokens are disjoint and in
\* increasing order: each token starts at or after the end of the span of
\* the token returned before it.
C30_SpansDisjointAndIncreasing ==
    \A i \in Tokens :
        i > 1 => toks[i].start >= toks[i - 1].start + toks[i - 1].length

====
